---------------------------- MODULE Spec2Model ----------------------------
(***************************************************************************)
(* A model of the CameraUI component of microplastic_screening             *)
(* (src/unnamed/part_000, the variant with size classification and         *)
(* history), as a state machine over the component's React state, the      *)
(* localStorage slot 'microplasticsHistory', the detection requests in      *)
(* flight and the pending auto-save timers.                                *)
(*                                                                         *)
(* React closures are modelled explicitly: a handler reads the state of    *)
(* the render it was created in.  A request in flight and a pending timer  *)
(* therefore carry the `image` and `history` that sendToBackend's closure  *)
(* captured when capture / handleUpload called it.                         *)
(***************************************************************************)
EXTENDS Integers, Sequences, FiniteSets, TLC

(***************************************************************************)
(* Program constants.                                                      *)
(***************************************************************************)
HistoryCap == 50        \* [historyItem, ...history].slice(0, 50)
itemsPerPage == 4       \* const itemsPerPage = 4
AutoSaveDelay == 500    \* setTimeout(..., 500)

(***************************************************************************)
(* Bounds of the model.                                                    *)
(***************************************************************************)
MaxRequests == 1        \* capture/upload actions explored per behaviour
MaxInFlight == 2        \* the same, when only the detection actions are explored
MaxSaves == 1           \* saveCurrentResult clicks explored per behaviour
MaxJumps == 1           \* AutoSaveDelay clock steps explored per behaviour
MaxDeletes == 1         \* deleteHistoryItem clicks explored per behaviour
MaxPage == 1            \* the last history page (0-based) the user browses to
NumImages == 2          \* distinct images the user can capture or upload
NumBodies == 13         \* images whose response bodies exercise the normalizer
StartTime == 100        \* Date.now() when the component mounts

Images == 1..NumImages
BodyImages == 1..NumBodies

(***************************************************************************)
(* JavaScript values.  A number n is held in thousandths (0.7 is 700), so  *)
(* that the fractions the code compares against stay integers.             *)
(***************************************************************************)
Undefined == [t |-> "undefined"]
JsNull == [t |-> "null"]
NaN == [t |-> "NaN"]
Infinity == [t |-> "Infinity"]
Num(n) == [t |-> "number", n |-> n]
Str(s) == [t |-> "string", s |-> s]
Arr(a) == [t |-> "array", a |-> a]
Obj(o) == [t |-> "object", o |-> o]

\* Property access v.k on a non-nullish value: undefined when absent.
Get(v, k) ==
  IF v.t = "object" /\ k \in DOMAIN v.o THEN v.o[k] ELSE Undefined

\* JavaScript truthiness, as used by `||`, `?:` and `if`.
Truthy(v) ==
  CASE v.t = "undefined" -> FALSE
    [] v.t = "null" -> FALSE
    [] v.t = "NaN" -> FALSE
    [] v.t = "number" -> v.n # 0
    [] v.t = "string" -> v.s # ""
    [] OTHER -> TRUE

\* Number(s) for the strings the payloads of this model contain.
StringToNumber(s) ==
  CASE s = "" -> Num(0)
    [] s = "3" -> Num(3000)
    [] s = "0.9" -> Num(900)
    [] s = "Infinity" -> Infinity
    [] OTHER -> NaN

\* Number(v).
ToNumber(v) ==
  CASE v.t = "undefined" -> NaN
    [] v.t = "null" -> Num(0)
    [] v.t = "NaN" -> NaN
    [] v.t = "Infinity" -> Infinity
    [] v.t = "number" -> v
    [] v.t = "string" -> StringToNumber(v.s)
    [] v.t = "array" -> IF Len(v.a) = 0 THEN Num(0) ELSE NaN
    [] OTHER -> NaN

\* a || b
OrElse(a, b) == IF Truthy(a) THEN a ELSE b

(***************************************************************************)
(* Arithmetic on JavaScript numbers.  A quotient that is not a whole       *)
(* number of thousandths is the number n / d thousandths, in lowest terms; *)
(* Num(n) is the case d = 1.  The operands in this model are not negative; *)
(* common factors are cancelled before multiplying.                        *)
(***************************************************************************)
RECURSIVE GCD(_, _)
GCD(a, b) == IF b = 0 THEN a ELSE GCD(b, a % b)

Den(v) == IF "d" \in DOMAIN v THEN v.d ELSE 1

\* The number p / q thousandths, for p >= 0 and q > 0.
Fraction(p, q) ==
  LET g == GCD(p, q)
  IN IF q \div g = 1 THEN Num(p \div g)
     ELSE [t |-> "number", n |-> p \div g, d |-> q \div g]

IsZero(v) == v.t = "number" /\ v.n = 0

\* a * b
Times(a, b) ==
  IF a.t = "NaN" \/ b.t = "NaN" THEN NaN
  ELSE IF a.t = "Infinity" \/ b.t = "Infinity"
    THEN IF IsZero(a) \/ IsZero(b) THEN NaN ELSE Infinity
  ELSE LET g1 == GCD(a.n, 1000)
           g2 == GCD(b.n, 1000 \div g1)
           g3 == GCD(a.n \div g1, Den(b))
           g4 == GCD(b.n \div g2, Den(a))
       IN Fraction(((a.n \div g1) \div g3) * ((b.n \div g2) \div g4),
                   (Den(a) \div g4) * (Den(b) \div g3) * ((1000 \div g1) \div g2))

\* a / b
Over(a, b) ==
  IF a.t = "NaN" \/ b.t = "NaN" THEN NaN
  ELSE IF a.t = "Infinity" THEN IF b.t = "Infinity" THEN NaN ELSE Infinity
  ELSE IF b.t = "Infinity" THEN Num(0)
  ELSE IF IsZero(b) THEN IF IsZero(a) THEN NaN ELSE Infinity
  ELSE LET g1 == GCD(a.n, b.n)
           g2 == GCD(1000, b.n \div g1)
           g3 == GCD(Den(b), Den(a))
       IN Fraction((a.n \div g1) * (1000 \div g2) * (Den(b) \div g3),
                   (Den(a) \div g3) * ((b.n \div g1) \div g2))

\* a + b, and a - b for a >= b, where b is finite
Plus(a, b) ==
  IF a.t # "number" THEN a
  ELSE Fraction(a.n * Den(b) + b.n * Den(a), Den(a) * Den(b))
Minus(a, b) ==
  IF a.t # "number" THEN a
  ELSE Fraction(a.n * Den(b) - b.n * Den(a), Den(a) * Den(b))

\* v <= n / 1000 and v < n / 1000: false for NaN
AtMost(v, n) == v.t = "number" /\ v.n <= n * Den(v)
LessThan(v, n) == v.t = "number" /\ v.n < n * Den(v)

\* Date.now().toString(): the decimal digits of n.
RECURSIVE NumberToString(_)
NumberToString(n) ==
  IF n < 10 THEN <<n>> ELSE Append(NumberToString(n \div 10), n % 10)

\* new Date().toISOString(): millisecond resolution.
ToISOString(ms) == [iso |-> ms]

\* new Date().toLocaleString('en-US', {... second: '2-digit'}): second resolution.
ToLocaleString(ms) == [local |-> ms \div 1000]

(***************************************************************************)
(* The Result Normalizer: processedResult of sendToBackend.                *)
(***************************************************************************)
ZeroBbox == Arr(<<Num(0), Num(0), Num(0), Num(0)>>)
ZeroSizeCounts ==
  Obj([nanoplastic |-> Num(0), small |-> Num(0), medium |-> Num(0), large |-> Num(0)])

\* x ? Number(x) : undefined
OptionalNumber(x) == IF Truthy(x) THEN ToNumber(x) ELSE Undefined

\* The callback of res.data.detections.map, for a d that is not null/undefined.
NormalizeDetection(d) ==
  [ confidence |-> OrElse(ToNumber(Get(d, "confidence")), Num(0)),
    bbox |-> IF Get(d, "bbox").t = "array"
               THEN Arr([i \in 1..Len(Get(d, "bbox").a) |-> ToNumber(Get(d, "bbox").a[i])])
               ELSE ZeroBbox,
    label |-> OrElse(Get(d, "label"), Str("Microplastic")),
    width_px |-> OptionalNumber(Get(d, "width_px")),
    height_px |-> OptionalNumber(Get(d, "height_px")),
    width_um |-> OptionalNumber(Get(d, "width_um")),
    height_um |-> OptionalNumber(Get(d, "height_um")),
    diagonal_um |-> OptionalNumber(Get(d, "diagonal_um")),
    size_category |-> OrElse(Get(d, "size_category"), Undefined) ]

\* Property access on null or undefined throws a TypeError: res.data.count on
\* a nullish body, d.confidence on a nullish element of detections.
Nullish(v) == v.t \in {"null", "undefined"}
NormalizeThrows(data) ==
  \/ Nullish(data)
  \/ /\ Get(data, "detections").t = "array"
     /\ \E i \in 1..Len(Get(data, "detections").a) : Nullish(Get(data, "detections").a[i])

\* processedResult, for a body on which the construction does not throw.
NormalizeResult(data, ms) ==
  [ count |-> OrElse(Get(data, "count"), Num(0)),
    detections |-> IF Get(data, "detections").t = "array"
                     THEN [i \in 1..Len(Get(data, "detections").a) |->
                             NormalizeDetection(Get(data, "detections").a[i])]
                     ELSE <<>>,
    image_size |-> Get(data, "image_size"),
    size_counts |-> OrElse(Get(data, "size_counts"), ZeroSizeCounts),
    calibration_info |-> Get(data, "calibration_info"),
    timestamp |-> ToISOString(ms) ]

(***************************************************************************)
(* The Geometry Normalizer: parseBbox.                                     *)
(***************************************************************************)
parseBbox(bbox) ==
  IF ~Truthy(bbox) \/ bbox.t # "array" \/ Len(bbox.a) < 4
    THEN <<Num(0), Num(0), Num(0), Num(0)>>
    ELSE [i \in 1..4 |-> OrElse(ToNumber(bbox.a[i]), Num(0))]

(***************************************************************************)
(* The Size Classifier: getSizeCategoryColor.                              *)
(***************************************************************************)
sizeCategoryColors ==
  [ nanoplastic |-> "border-red-500 bg-red-500/10 text-red-400",
    small |-> "border-yellow-500 bg-yellow-500/10 text-yellow-400",
    medium |-> "border-blue-500 bg-blue-500/10 text-blue-400",
    large |-> "border-purple-500 bg-purple-500/10 text-purple-400" ]

\* String.prototype.toLowerCase for the labels the payloads of this model contain.
ToLowerCase(s) ==
  CASE s = "Microplastic" -> "microplastic"
    [] s = "MICROPLASTIC" -> "microplastic"
    [] s = "Fiber" -> "fiber"
    [] OTHER -> s

\* v > n / 1000 for a v that Number(...) || 0 yielded.
GreaterThan(v, n) == v.t = "Infinity" \/ (v.t = "number" /\ v.n > n)

\* getSizeCategoryColor of a detection whose label is a string, after a
\* variant of it that does not look at the label.
getSizeCategoryColorAnyLabel(detection) ==
  IF Truthy(detection.size_category)
    THEN IF /\ detection.size_category.t = "string"
            /\ detection.size_category.s \in DOMAIN sizeCategoryColors
           THEN sizeCategoryColors[detection.size_category.s]
           ELSE "border-gray-500 bg-gray-500/10 text-gray-400"
    ELSE LET confidence == OrElse(ToNumber(detection.confidence), Num(0))
         IN IF GreaterThan(confidence, 700)
              THEN "border-green-500 bg-green-500/10 text-green-400"
              ELSE IF GreaterThan(confidence, 400)
                     THEN "border-yellow-500 bg-yellow-500/10 text-yellow-400"
                     ELSE "border-red-500 bg-red-500/10 text-red-400"

getSizeCategoryColor(detection) ==
  IF Truthy(detection.size_category) /\ ToLowerCase(detection.label.s) = "microplastic"
    THEN IF /\ detection.size_category.t = "string"
            /\ detection.size_category.s \in DOMAIN sizeCategoryColors
           THEN sizeCategoryColors[detection.size_category.s]
           ELSE "border-gray-500 bg-gray-500/10 text-gray-400"
    ELSE LET confidence == OrElse(ToNumber(detection.confidence), Num(0))
         IN IF GreaterThan(confidence, 700)
              THEN "border-green-500 bg-green-500/10 text-green-400"
              ELSE IF GreaterThan(confidence, 400)
                     THEN "border-yellow-500 bg-yellow-500/10 text-yellow-400"
                     ELSE "border-red-500 bg-red-500/10 text-red-400"

(***************************************************************************)
(* The Overlay Projector: renderBoundingBoxes, and the colours of the      *)
(* details list.                                                           *)
(***************************************************************************)
\* x <= 1 && y <= 1 && width <= 1 && height <= 1, after a variant of it
\* that looks at the origin only
isNormalizedByOrigin(box) == AtMost(box[1], 1000) /\ AtMost(box[2], 1000)
isNormalized(box) == \A j \in 1..4 : AtMost(box[j], 1000)

\* Math.max(topPercent - 3, 2)
MaxAbove(topPercent) ==
  IF topPercent.t # "number" THEN topPercent
  ELSE IF LessThan(topPercent, 5000) THEN Num(2000)
  ELSE Minus(topPercent, Num(3000))

\* The label's labelTop, labelTransform and labelPositionClass, after a
\* variant with an inclusive threshold.
LabelPlacementInclusive(topPercent) ==
  IF AtMost(topPercent, 10000)
    THEN [ labelTop |-> Plus(topPercent, Num(1000)),
           labelTransform |-> "translateY(0)",
           labelPositionClass |-> "top-0" ]
    ELSE [ labelTop |-> MaxAbove(topPercent),
           labelTransform |-> "translateY(-100%)",
           labelPositionClass |-> "top-full" ]
LabelPlacement(topPercent) ==
  IF LessThan(topPercent, 10000)
    THEN [ labelTop |-> Plus(topPercent, Num(1000)),
           labelTransform |-> "translateY(0)",
           labelPositionClass |-> "top-0" ]
    ELSE [ labelTop |-> MaxAbove(topPercent),
           labelTransform |-> "translateY(-100%)",
           labelPositionClass |-> "top-full" ]

\* The four percentages of a detection's box against the image dimensions.
BoxPercents(detection, dims) ==
  LET box == parseBbox(detection.bbox)
      w == Num(1000 * dims.width)
      h == Num(1000 * dims.height)
      left == IF isNormalized(box) THEN Times(box[1], w) ELSE box[1]
      top == IF isNormalized(box) THEN Times(box[2], h) ELSE box[2]
      boxWidth == IF isNormalized(box) THEN Times(box[3], w) ELSE box[3]
      boxHeight == IF isNormalized(box) THEN Times(box[4], h) ELSE box[4]
  IN [ leftPercent |-> Times(Over(left, w), Num(100000)),
       topPercent |-> Times(Over(top, h), Num(100000)),
       widthPercent |-> Times(Over(boxWidth, w), Num(100000)),
       heightPercent |-> Times(Over(boxHeight, h), Num(100000)) ]

\* categoryColor.split(' '): the border, bg and text classes of a treatment.
SplitClasses(categoryColor) ==
  CASE categoryColor = "border-red-500 bg-red-500/10 text-red-400" ->
         [borderColor |-> "border-red-500", bgColor |-> "bg-red-500/10", textColor |-> "text-red-400"]
    [] categoryColor = "border-yellow-500 bg-yellow-500/10 text-yellow-400" ->
         [borderColor |-> "border-yellow-500", bgColor |-> "bg-yellow-500/10", textColor |-> "text-yellow-400"]
    [] categoryColor = "border-blue-500 bg-blue-500/10 text-blue-400" ->
         [borderColor |-> "border-blue-500", bgColor |-> "bg-blue-500/10", textColor |-> "text-blue-400"]
    [] categoryColor = "border-purple-500 bg-purple-500/10 text-purple-400" ->
         [borderColor |-> "border-purple-500", bgColor |-> "bg-purple-500/10", textColor |-> "text-purple-400"]
    [] categoryColor = "border-green-500 bg-green-500/10 text-green-400" ->
         [borderColor |-> "border-green-500", bgColor |-> "bg-green-500/10", textColor |-> "text-green-400"]
    [] OTHER ->
         [borderColor |-> "border-gray-500", bgColor |-> "bg-gray-500/10", textColor |-> "text-gray-400"]

\* renderBoundingBoxes: nothing, or one box per detection of the result.
renderBoundingBoxes(res, dims, img) ==
  IF res = JsNull \/ dims = JsNull \/ img = JsNull THEN [boxes |-> <<>>, rendered |-> FALSE]
  ELSE [ rendered |-> TRUE,
         boxes |-> [ i \in 1..Len(res.detections) |->
                       [ style |-> BoxPercents(res.detections[i], dims),
                         colors |-> SplitClasses(getSizeCategoryColor(res.detections[i])),
                         label |-> LabelPlacement(
                                     BoxPercents(res.detections[i], dims).topPercent) ] ] ]

\* The dot of a detection in the details list:
\* categoryColor.split(' ').find(c => c.includes('border-'))?.replace('border-', 'bg-')
DetailsDot(detection) ==
  LET borderColor == SplitClasses(getSizeCategoryColor(detection)).borderColor
  IN CASE borderColor = "border-red-500" -> "bg-red-500"
       [] borderColor = "border-yellow-500" -> "bg-yellow-500"
       [] borderColor = "border-blue-500" -> "bg-blue-500"
       [] borderColor = "border-purple-500" -> "bg-purple-500"
       [] borderColor = "border-green-500" -> "bg-green-500"
       [] OTHER -> "bg-gray-500"

(***************************************************************************)
(* The variant without size classification (cameraUIwithoutSize.tsx).      *)
(***************************************************************************)
\* calculateBoundingBox(bbox, imgWidth, imgHeight)
calculateBoundingBox(bbox, imgWidth, imgHeight) ==
  LET box == parseBbox(bbox)
      w == Num(1000 * imgWidth)
      h == Num(1000 * imgHeight)
  IN IF isNormalized(box)
       THEN [ leftPercent |-> Times(box[1], Num(100000)),
              topPercent |-> Times(box[2], Num(100000)),
              widthPercent |-> Times(box[3], Num(100000)),
              heightPercent |-> Times(box[4], Num(100000)) ]
       ELSE [ leftPercent |-> Times(Over(box[1], w), Num(100000)),
              topPercent |-> Times(Over(box[2], h), Num(100000)),
              widthPercent |-> Times(Over(box[3], w), Num(100000)),
              heightPercent |-> Times(Over(box[4], h), Num(100000)) ]

\* The colours of a box in the variant's renderBoundingBoxes, after a
\* variant of them whose upper threshold is inclusive (>= 0.7).
WithoutSizeBoxColorsInclusive(detection) ==
  LET confidence == OrElse(ToNumber(detection.confidence), Num(0))
  IN IF ~LessThan(confidence, 700)
       THEN [borderColor |-> "border-green-500", bgColor |-> "bg-green-500/10", textColor |-> "text-green-400"]
       ELSE IF GreaterThan(confidence, 400)
         THEN [borderColor |-> "border-yellow-500", bgColor |-> "bg-yellow-500/10", textColor |-> "text-yellow-400"]
         ELSE [borderColor |-> "border-red-500", bgColor |-> "bg-red-500/10", textColor |-> "text-red-400"]
WithoutSizeBoxColors(detection) ==
  LET confidence == OrElse(ToNumber(detection.confidence), Num(0))
  IN IF GreaterThan(confidence, 700)
       THEN [borderColor |-> "border-green-500", bgColor |-> "bg-green-500/10", textColor |-> "text-green-400"]
       ELSE IF GreaterThan(confidence, 400)
         THEN [borderColor |-> "border-yellow-500", bgColor |-> "bg-yellow-500/10", textColor |-> "text-yellow-400"]
         ELSE [borderColor |-> "border-red-500", bgColor |-> "bg-red-500/10", textColor |-> "text-red-400"]

\* The dot and the percentage's text colour of a detection in the variant's
\* details list.
WithoutSizeDetailsColors(detection) ==
  LET confidence == OrElse(ToNumber(detection.confidence), Num(0))
  IN [ dot |-> IF GreaterThan(confidence, 700) THEN "bg-green-500"
               ELSE IF GreaterThan(confidence, 400) THEN "bg-yellow-500" ELSE "bg-red-500",
       text |-> IF GreaterThan(confidence, 700) THEN "text-green-400"
                ELSE IF GreaterThan(confidence, 400) THEN "text-yellow-400" ELSE "text-red-400" ]

(***************************************************************************)
(* JSON.stringify followed by JSON.parse: NaN and Infinity become null, an  *)
(* undefined property is dropped (it reads as undefined afterwards, as     *)
(* before).                                                                *)
(***************************************************************************)
JsonNumber(v) == IF v.t \in {"NaN", "Infinity"} THEN JsNull ELSE v

JsonDetection(d) ==
  [ d EXCEPT !.confidence = JsonNumber(d.confidence),
             !.bbox = Arr([i \in 1..Len(d.bbox.a) |-> JsonNumber(d.bbox.a[i])]),
             !.width_px = JsonNumber(d.width_px),
             !.height_px = JsonNumber(d.height_px),
             !.width_um = JsonNumber(d.width_um),
             !.height_um = JsonNumber(d.height_um),
             !.diagonal_um = JsonNumber(d.diagonal_um) ]

JsonResult(r) ==
  [ r EXCEPT !.detections = [i \in 1..Len(r.detections) |-> JsonDetection(r.detections[i])] ]

\* An element of `history` that has the result of a HistoryItem; a persisted
\* array can hold anything else.
IsHistoryItem(x) == "result" \in DOMAIN x

JsonHistory(h) ==
  [i \in 1..Len(h) |->
     IF IsHistoryItem(h[i]) THEN [h[i] EXCEPT !.result = JsonResult(h[i].result)] ELSE h[i]]

(***************************************************************************)
(* The environment: the images a user can capture or upload, the detection *)
(* service's response body for each, and each image's natural size.        *)
(***************************************************************************)
ImageUrl(i) == [t |-> "url", i |-> i]

GoodBody ==
  Obj([ count |-> Num(1000),
        detections |-> Arr(<< Obj([ confidence |-> Num(900),
                                    bbox |-> Arr(<<Num(100), Num(200), Num(300), Num(400)>>),
                                    label |-> Str("Microplastic"),
                                    size_category |-> Str("medium") ]) >>),
        size_counts |-> Obj([nanoplastic |-> Num(0), small |-> Num(0),
                             medium |-> Num(1000), large |-> Num(0)]) ])

MismatchBody == Obj([ count |-> Num(3000), detections |-> Arr(<<>>) ])

MalformedBody == Obj([ count |-> Num(1000), detections |-> Arr(<<JsNull>>) ])

\* Bodies whose fields have other types or shapes than DetectionResult's.
BoxOf(x) == Arr(<<x, Num(200), Num(300), Num(400)>>)
BodyOf(d) == Obj([ count |-> Num(1000), detections |-> Arr(<<d>>) ])

CountStringBody == Obj([ count |-> Str("3"), detections |-> Arr(<<>>) ])
CountNegativeBody == Obj([ count |-> Num(0 - 1500), detections |-> Arr(<<>>) ])
NoFieldsBody == Obj([ status |-> Str("ok") ])
SizeCountsBody ==
  Obj([ count |-> Num(0), detections |-> Arr(<<>>), size_counts |-> Obj([small |-> Str("many")]) ])
CategoryBody ==
  BodyOf(Obj([ confidence |-> Num(900), bbox |-> BoxOf(Num(100)),
               label |-> Str("Microplastic"), size_category |-> Str("huge") ]))
ConfidenceBody ==
  BodyOf(Obj([ confidence |-> Str("Infinity"), bbox |-> BoxOf(Num(100)) ]))
BboxTextBody ==
  BodyOf(Obj([ confidence |-> Str("0.9"), bbox |-> BoxOf(Str("abc")) ]))
BboxShortBody ==
  BodyOf(Obj([ confidence |-> Num(900), bbox |-> Arr(<<Num(100), Num(200)>>) ]))
BboxInfiniteBody ==
  BodyOf(Obj([ bbox |-> BoxOf(Str("Infinity")), label |-> Str("Fiber") ]))
WidthTextBody ==
  BodyOf(Obj([ confidence |-> Num(900), bbox |-> BoxOf(Num(100)), width_px |-> Str("abc") ]))

\* Bodies whose boxes are in pixels or normalized, at and around the overlay's
\* thresholds.  The image of PixelBody is 300 x 150 pixels.
PixelBody ==
  Obj([ count |-> Num(2000),
        detections |->
          Arr(<< Obj([ confidence |-> Num(750), label |-> Str("Fiber"),
                       size_category |-> Str("large"),
                       bbox |-> Arr(<<Num(0), Num(1000), Num(60000), Num(30000)>>) ]),
                 Obj([ confidence |-> Num(900), label |-> Str("MICROPLASTIC"),
                       size_category |-> Str("small"),
                       bbox |-> Arr(<<Num(30000), Num(15000), Num(1000), Num(15000)>>) ]) >>) ])
BandBody ==
  Obj([ count |-> Num(3000),
        detections |->
          Arr(<< Obj([ confidence |-> Num(700),
                       bbox |-> Arr(<<Num(500), Num(50), Num(200), Num(200)>>) ]),
                 Obj([ confidence |-> Num(400),
                       bbox |-> Arr(<<Num(500), Num(100), Num(200), Num(200)>>) ]),
                 Obj([ confidence |-> Num(750),
                       bbox |-> Arr(<<Num(0), Num(0), Num(1000), Num(1000)>>) ]) >>) ])

\* The images of the overlay bodies: the first has no natural dimensions.
DimensionlessImage == NumBodies + 1
OverlayImages == DimensionlessImage .. DimensionlessImage + 2

\* res.data of the detection service for the image with index i.
Detect(i) ==
  CASE i = 1 -> GoodBody
    [] i = 2 -> MismatchBody
    [] i = 4 -> CountStringBody
    [] i = 5 -> CountNegativeBody
    [] i = 6 -> NoFieldsBody
    [] i = 7 -> SizeCountsBody
    [] i = 8 -> CategoryBody
    [] i = 9 -> ConfidenceBody
    [] i = 10 -> BboxTextBody
    [] i = 11 -> BboxShortBody
    [] i = 12 -> BboxInfiniteBody
    [] i = 13 -> WidthTextBody
    [] i = DimensionlessImage -> GoodBody
    [] i = DimensionlessImage + 1 -> PixelBody
    [] i = DimensionlessImage + 2 -> BandBody
    [] OTHER -> MalformedBody

\* img.naturalWidth, img.naturalHeight of a loaded image: both 0 for an image
\* without natural dimensions (an SVG without width, height and viewBox).
NaturalSize(i) ==
  IF i = DimensionlessImage THEN [width |-> 0, height |-> 0]
  ELSE IF i > DimensionlessImage
    THEN [width |-> 300 * (i - DimensionlessImage), height |-> 150 * (i - DimensionlessImage)]
  ELSE [width |-> 1000 * i, height |-> 500 * i]

(***************************************************************************)
(* The History Store's pure parts.                                         *)
(***************************************************************************)
Min(a, b) == IF a < b THEN a ELSE b

\* array.slice(from, to) for 0 <= from, to (0-based, `to` exclusive).
Slice(s, from, to) ==
  IF from >= Min(to, Len(s)) THEN <<>> ELSE SubSeq(s, from + 1, Min(to, Len(s)))

\* historyItem of saveToHistory, created at Date.now() = ms.
HistoryItem(r, imageData, filename, ms) ==
  [ id |-> NumberToString(ms),
    timestamp |-> ToLocaleString(ms),
    result |-> r,
    imageData |-> imageData,
    filename |-> filename ]

\* saveToHistory without its slice(0, 50).
SaveToHistoryUncapped(hist, item) == <<item>> \o hist

\* updatedHistory of saveToHistory: hist is the `history` of the closure.
SaveToHistory(hist, item) == Slice(<<item>> \o hist, 0, HistoryCap)

\* history.filter(item => item.id !== id)
RECURSIVE FilterOutId(_, _)
FilterOutId(hist, id) ==
  IF hist = <<>> THEN <<>>
  ELSE IF Head(hist).id # id
         THEN <<Head(hist)>> \o FilterOutId(Tail(hist), id)
         ELSE FilterOutId(Tail(hist), id)

\* Math.ceil(history.length / itemsPerPage)
TotalPages(hist) == (Len(hist) + itemsPerPage - 1) \div itemsPerPage

\* A page that starts one item late.
PageSliceShifted(hist, n, size) == Slice(hist, n * size + 1, n * size + size)

\* history.slice(startIndex, endIndex) for page n of the given size.
PageSlice(hist, n, size) == Slice(hist, n * size, n * size + size)

(***************************************************************************)
(* The persisted slot 'microplasticsHistory'.                              *)
(***************************************************************************)
\* The slot is absent, or holds the JSON text of an array (value), the JSON
\* text of a value that is not an array (json), or a text that is not JSON.
AbsentSlot == [present |-> FALSE]
SlotOf(hist) == [present |-> TRUE, value |-> JsonHistory(hist)]
JsonSlot(v) == [present |-> TRUE, json |-> v]
GarbageSlot == [present |-> TRUE, text |-> "{not json"]

\* The load effect: getItem, then setHistory(JSON.parse(...)) when the slot
\* holds something; a text that is not JSON throws into the catch and leaves
\* the history as it was, [].  (For a value that is not an array see
\* HydrateThrows.)
Hydrate(slot) == IF slot.present /\ "value" \in DOMAIN slot THEN slot.value ELSE <<>>

\* setHistory(v) with a parsed v that is not an array (null, a number, an
\* object): the next render throws a TypeError at history.length or
\* history.slice, which nothing catches.
HydrateThrows(slot) == slot.present /\ "json" \in DOMAIN slot

\* The save effect, run after every render that changed `history`.
SaveEffect(hist, slot) == IF Len(hist) > 0 THEN SlotOf(hist) ELSE slot

\* A history persisted by an earlier session: n explicit saves, at the
\* times 1..n, of the result obtained for image 2, most recent first.
StoredHistory(n) ==
  [k \in 1..n |->
     HistoryItem(NormalizeResult(Detect(2), 0), ImageUrl(2),
                 [prefix |-> "microplastics_", stamp |-> n + 1 - k, suffix |-> ""],
                 n + 1 - k)]

\* What the slot can hold when the component mounts: nothing, or a stored
\* history of one of the given lengths.
InitialSlots(lens) ==
  {IF n = 0 THEN AbsentSlot ELSE SlotOf(StoredHistory(n)) : n \in lens}

(***************************************************************************)
(* The state.                                                              *)
(***************************************************************************)
VARIABLES
  image,               \* useState<string | null>(null)
  result,              \* useState<DetectionResult | null>(null)
  loading,             \* useState(false)
  imageDimensions,     \* useState<{width, height} | null>(null)
  mode,                \* useState<"camera" | "gallery">("camera")
  history,             \* useState<HistoryItem[]>([])
  showHistory,         \* useState(false)
  currentHistoryPage,  \* useState(0)
  storage,             \* localStorage's slot 'microplasticsHistory'
  requests,            \* axios.post calls awaiting their response
  timers,              \* setTimeout callbacks of sendToBackend not yet run
  domImg,              \* the rendered <img>: its src and whether `load` has fired
  now,                 \* Date.now()
  sent,                \* number of sendToBackend calls (capture/upload actions) so far
  deletes,             \* number of deleteHistoryItem clicks so far
  mounted,             \* the component tree is mounted: no render or effect has thrown
  storageFull          \* localStorage has no room for a value larger than the slot's

vars == << image, result, loading, imageDimensions, mode, history, showHistory,
           currentHistoryPage, storage, requests, timers, domImg, now, sent, deletes,
           mounted, storageFull >>

\* Which branch of the render's `mode === "camera" && !image ? ... : ...` shows,
\* when the history panel is not shown instead.
CameraView == mounted /\ ~showHistory /\ mode = "camera" /\ image = JsNull
GalleryView == mounted /\ ~showHistory /\ ~(mode = "camera" /\ image = JsNull)

\* Indices (1-based) of the items of paginatedHistory within history.
VisibleItems ==
  { k \in 1..Len(history) :
      /\ k > currentHistoryPage * itemsPerPage
      /\ k <= currentHistoryPage * itemsPerPage + itemsPerPage }

\* The <img> after a render with the given image and showHistory: it exists
\* when `image` is set and the history panel is not shown; a new element or a
\* new src has its load event still to come.
Rendered(newImage, newShow) ==
  IF newShow \/ newImage = JsNull THEN JsNull
  ELSE IF domImg # JsNull /\ domImg.src = newImage THEN domImg
  ELSE [src |-> newImage, loaded |-> FALSE]

\* Rendering the history panel throws a TypeError at item.result.count when
\* an element of the page shown is not a HistoryItem.
RenderThrows(hist, show, page) ==
  /\ show
  /\ \E k \in 1..Len(hist) :
       /\ k > page * itemsPerPage
       /\ k <= page * itemsPerPage + itemsPerPage
       /\ ~IsHistoryItem(hist[k])

\* The save effect throws: localStorage.setItem is called with a history of
\* more elements than the slot holds and there is no room for it
\* (QuotaExceededError).  The effect has no try/catch.
StoredLen(slot) == IF slot.present /\ "value" \in DOMAIN slot THEN Len(slot.value) ELSE 0
SaveEffectThrows(hist, slot) == storageFull /\ Len(hist) > 0 /\ Len(hist) > StoredLen(slot)

SmallSteps == (now - StartTime) % AutoSaveDelay
Jumps == (now - StartTime) \div AutoSaveDelay

\* The component after mounting (initial render, load effect, the render
\* with the hydrated history, save effect) with one of the given slots and
\* localStorage full or not.  An uncaught error in a render or an effect
\* makes React unmount the tree.
MountedFrom(slots, full) ==
  \E slot \in slots :
    /\ image = JsNull
    /\ result = JsNull
    /\ loading = FALSE
    /\ imageDimensions = JsNull
    /\ mode = "camera"
    /\ history = Hydrate(slot)
    /\ showHistory = FALSE
    /\ currentHistoryPage = 0
    /\ storageFull \in full
    /\ mounted = ~(HydrateThrows(slot) \/ SaveEffectThrows(Hydrate(slot), slot))
    /\ storage = IF mounted THEN SaveEffect(Hydrate(slot), slot) ELSE slot
    /\ requests = {}
    /\ timers = {}
    /\ domImg = JsNull
    /\ now = StartTime
    /\ sent = 0
    /\ deletes = 0

\* Mounting with room in localStorage and the slot holding a stored history
\* of one of the given lengths.
Mounted(lens) == MountedFrom(InitialSlots(lens), {FALSE})

Init == Mounted({0, 1, itemsPerPage + 1})

\* What an earlier session, another page of the origin or the user can have
\* left in the slot: a text that is not JSON, the JSON texts null, {"a": 1}
\* and [5], or a stored history.
HydrateSlots ==
  { GarbageSlot, JsonSlot(JsNull), JsonSlot(Obj([a |-> Num(1000)])),
    [present |-> TRUE, value |-> <<Num(5000)>>],
    SlotOf(StoredHistory(1)), SlotOf(StoredHistory(itemsPerPage + 1)) }

InitHydrate == MountedFrom(HydrateSlots, {FALSE})

\* Mounting with localStorage full or not.
InitPersist == MountedFrom(InitialSlots({0, 1, itemsPerPage + 1}), BOOLEAN)

\* Mounting with a stored history at, or one short of, the cap.
InitCap == Mounted({HistoryCap - 1, HistoryCap})

(***************************************************************************)
(* Every action needs the tree mounted: an unmounted component has no      *)
(* buttons, and the setState calls of a late continuation or timer have no *)
(* effect on it.                                                           *)
(***************************************************************************)
\* The render and the save effect that follow a setHistory: when the render
\* throws the effect does not run; when either throws the tree is unmounted.
CommitHistory ==
  /\ mounted' = ~(\/ RenderThrows(history', showHistory', currentHistoryPage')
                  \/ SaveEffectThrows(history', storage))
  /\ storage' = IF mounted' THEN SaveEffect(history', storage) ELSE storage

(***************************************************************************)
(* Capture and upload.                                                     *)
(***************************************************************************)
\* A sendToBackend that posts the image twice.
SendToBackendTwice(file) ==
  /\ loading' = TRUE
  /\ result' = JsNull
  /\ imageDimensions' = JsNull
  /\ requests' = requests \cup
        {[rid |-> sent + 1, file |-> file, image |-> image, history |-> history,
          result |-> result],
         [rid |-> 0 - (sent + 1), file |-> file, image |-> image, history |-> history,
          result |-> result]}
  /\ sent' = sent + 1

\* sendToBackend up to its await: the request carries the `image`, `history`
\* and `result` of the render in which capture / handleUpload was created.
SendToBackend(file) ==
  /\ loading' = TRUE
  /\ result' = JsNull
  /\ imageDimensions' = JsNull
  /\ requests' = requests \cup
        {[rid |-> sent + 1, file |-> file, image |-> image, history |-> history,
          result |-> result]}
  /\ sent' = sent + 1

\* setImage(url); setMode("gallery"); await sendToBackend(file)
StartDetection(i) ==
  /\ image' = ImageUrl(i)
  /\ mode' = "gallery"
  /\ SendToBackend(i)
  /\ domImg' = Rendered(ImageUrl(i), showHistory)
  /\ UNCHANGED << history, showHistory, currentHistoryPage, storage, timers, now, deletes,
                  mounted, storageFull >>

Capture(i) == CameraView /\ StartDetection(i)

\* handleUpload from the camera view's "Upload" button.
Upload(i) == CameraView /\ StartDetection(i)

\* handleUpload from the gallery view's "Upload New" button.
UploadNew(i) == GalleryView /\ StartDetection(i)

\* The continuation of sendToBackend after the await resolved with res.data:
\* the catch block when building processedResult throws, else setResult and
\* the auto-save timer; finally setLoading(false).
ResponseArrives(r) ==
  /\ mounted
  /\ r \in requests
  /\ requests' = requests \ {r}
  /\ loading' = FALSE
  /\ IF NormalizeThrows(Detect(r.file))
       THEN UNCHANGED << result, timers >>
       ELSE /\ result' = NormalizeResult(Detect(r.file), now)
            /\ timers' = timers \cup
                 {[rid |-> r.rid, result |-> NormalizeResult(Detect(r.file), now),
                   image |-> r.image, history |-> r.history, setAt |-> now]}
  /\ UNCHANGED << image, imageDimensions, mode, history, showHistory, currentHistoryPage,
                  storage, domImg, now, sent, deletes,
                  mounted, storageFull >>

\* The await rejected (network error, non-2xx status): catch, then finally.
RequestFails(r) ==
  /\ mounted
  /\ r \in requests
  /\ requests' = requests \ {r}
  /\ loading' = FALSE
  /\ UNCHANGED << image, result, imageDimensions, mode, history, showHistory,
                  currentHistoryPage, storage, timers, domImg, now, sent, deletes,
                  mounted, storageFull >>

\* The setTimeout callback: if (image) saveToHistory(processedResult, image, ...)
\* with the image and the history of sendToBackend's closure.
AutoSave(t) ==
  /\ mounted
  /\ t \in timers
  /\ now >= t.setAt + AutoSaveDelay
  /\ timers' = timers \ {t}
  /\ UNCHANGED << image, result, loading, imageDimensions, mode, showHistory,
                  currentHistoryPage, requests, domImg, now, sent, deletes, storageFull >>
  /\ IF Truthy(t.image)
       THEN /\ history' = SaveToHistory(t.history,
                            HistoryItem(t.result, t.image,
                              [prefix |-> "detection_", stamp |-> now, suffix |-> ".jpg"], now))
            /\ CommitHistory
       ELSE UNCHANGED << history, storage, mounted >>

\* saveCurrentResult; its alert is modal, so the clock has moved on when it returns.
SaveCurrentResult ==
  /\ GalleryView
  /\ now' = now + 1
  /\ UNCHANGED << image, result, loading, imageDimensions, mode, showHistory,
                  currentHistoryPage, requests, timers, domImg, sent, deletes, storageFull >>
  /\ IF result = JsNull \/ image = JsNull
       THEN UNCHANGED << history, storage, mounted >>
       ELSE /\ history' = SaveToHistory(history,
                            HistoryItem(result, image,
                              [prefix |-> "microplastics_", stamp |-> now, suffix |-> ""], now))
            /\ CommitHistory

\* reset ("New Scan" and the X button)
Reset ==
  /\ GalleryView
  /\ image' = JsNull
  /\ result' = JsNull
  /\ mode' = "camera"
  /\ imageDimensions' = JsNull
  /\ domImg' = Rendered(JsNull, showHistory)
  /\ UNCHANGED << loading, history, showHistory, currentHistoryPage, storage, requests,
                  timers, now, sent, deletes,
                  mounted, storageFull >>

\* The <img>'s onLoad.
ImgOnLoad ==
  /\ mounted
  /\ domImg # JsNull
  /\ ~domImg.loaded
  /\ imageDimensions' = NaturalSize(domImg.src.i)
  /\ domImg' = [domImg EXCEPT !.loaded = TRUE]
  /\ UNCHANGED << image, result, loading, mode, history, showHistory, currentHistoryPage,
                  storage, requests, timers, now, sent, deletes,
                  mounted, storageFull >>

(***************************************************************************)
(* The history panel.                                                      *)
(***************************************************************************)
\* The header's History button, and "Back to Camera" when the panel is shown.
ToggleHistory ==
  /\ mounted
  /\ showHistory' = ~showHistory
  /\ domImg' = Rendered(image, ~showHistory)
  /\ mounted' = ~RenderThrows(history, ~showHistory, currentHistoryPage)
  /\ UNCHANGED << image, result, loading, imageDimensions, mode, history,
                  currentHistoryPage, storage, requests, timers, now, sent, deletes,
                  storageFull >>

LoadHistoryItem(k) ==
  /\ mounted
  /\ showHistory
  /\ k \in VisibleItems
  /\ image' = history[k].imageData
  /\ result' = history[k].result
  /\ mode' = "gallery"
  /\ showHistory' = FALSE
  /\ domImg' = Rendered(history[k].imageData, FALSE)
  /\ UNCHANGED << loading, imageDimensions, history, currentHistoryPage, storage,
                  requests, timers, now, sent, deletes,
                  mounted, storageFull >>

DeleteHistoryItem(k) ==
  /\ mounted
  /\ showHistory
  /\ k \in VisibleItems
  /\ deletes' = deletes + 1
  /\ history' = FilterOutId(history, history[k].id)
  /\ UNCHANGED << image, result, loading, imageDimensions, mode, showHistory,
                  currentHistoryPage, requests, timers, domImg, now, sent, storageFull >>
  /\ CommitHistory

\* A clearAllHistory without its localStorage.removeItem.
ClearAllHistoryKeepsSlot(confirmed) ==
  /\ mounted
  /\ showHistory
  /\ IF confirmed
       THEN /\ history' = <<>>
            /\ storage' = SaveEffect(<<>>, storage)
       ELSE UNCHANGED << history, storage >>
  /\ UNCHANGED << image, result, loading, imageDimensions, mode, showHistory,
                  currentHistoryPage, requests, timers, domImg, now, sent, deletes,
                  mounted, storageFull >>

\* clearAllHistory; confirmed is window.confirm's answer.
ClearAllHistory(confirmed) ==
  /\ mounted
  /\ showHistory
  /\ IF confirmed
       THEN /\ history' = <<>>
            /\ storage' = SaveEffect(<<>>, AbsentSlot)
       ELSE UNCHANGED << history, storage >>
  /\ UNCHANGED << image, result, loading, imageDimensions, mode, showHistory,
                  currentHistoryPage, requests, timers, domImg, now, sent, deletes,
                  mounted, storageFull >>

PaginationShown == mounted /\ showHistory /\ Len(history) # 0 /\ TotalPages(history) > 1

PreviousPage ==
  /\ PaginationShown
  /\ currentHistoryPage # 0
  /\ currentHistoryPage' = IF currentHistoryPage - 1 > 0 THEN currentHistoryPage - 1 ELSE 0
  /\ UNCHANGED << image, result, loading, imageDimensions, mode, history, showHistory,
                  storage, requests, timers, domImg, now, sent, deletes,
                  storageFull >>
  /\ mounted' = ~RenderThrows(history, showHistory, currentHistoryPage')

NextPage ==
  /\ PaginationShown
  /\ ~(currentHistoryPage >= TotalPages(history) - 1)
  /\ currentHistoryPage' = Min(TotalPages(history) - 1, currentHistoryPage + 1)
  /\ UNCHANGED << image, result, loading, imageDimensions, mode, history, showHistory,
                  storage, requests, timers, domImg, now, sent, deletes,
                  storageFull >>
  /\ mounted' = ~RenderThrows(history, showHistory, currentHistoryPage')

(***************************************************************************)
(* The clock: time passes (here by the auto-save delay) between two events. *)
(***************************************************************************)
Jump ==
  /\ now' = now + AutoSaveDelay
  /\ UNCHANGED << image, result, loading, imageDimensions, mode, history, showHistory,
                  currentHistoryPage, storage, requests, timers, domImg, sent, deletes,
                  mounted, storageFull >>

(***************************************************************************)
(* The next-state relations.  The bounds of the model guard the actions    *)
(* that count up.                                                          *)
(***************************************************************************)
\* Capturing, uploading, the request's completion and what follows from it,
\* with at most maxRequests requests sent in a behaviour.
Detection(maxRequests) ==
  \/ sent < maxRequests /\ \E i \in Images : Capture(i)
  \/ sent < maxRequests /\ \E i \in Images : Upload(i)
  \/ sent < maxRequests /\ \E i \in Images : UploadNew(i)
  \/ \E r \in requests : ResponseArrives(r)
  \/ \E r \in requests : RequestFails(r)
  \/ \E t \in timers : AutoSave(t)
  \/ Reset
  \/ ImgOnLoad
  \/ Jumps < MaxJumps /\ Jump

\* The history panel and the explicit save.
Store ==
  \/ SmallSteps < MaxSaves /\ SaveCurrentResult
  \/ ToggleHistory
  \/ \E k \in 1..Len(history) : LoadHistoryItem(k)
  \/ deletes < MaxDeletes /\ \E k \in 1..Len(history) : DeleteHistoryItem(k)
  \/ \E confirmed \in BOOLEAN : ClearAllHistory(confirmed)
  \/ PreviousPage
  \/ currentHistoryPage < MaxPage /\ NextPage

Next == Detection(MaxRequests) \/ Store

Spec == Init /\ [][Next]_vars

\* The component mounted from any of HydrateSlots.
SpecHydrate == InitHydrate /\ [][Next]_vars

\* The component with localStorage possibly full.
SpecPersist == InitPersist /\ [][Next]_vars

\* Several requests in flight: the detection actions alone, with the history
\* panel closed.
NextInFlight == Detection(MaxInFlight)

SpecInFlight == Init /\ [][NextInFlight]_vars

\* The detection actions over all the bodies the service can answer with.
NextNormalize ==
  \/ sent < MaxInFlight /\ \E i \in BodyImages : Capture(i)
  \/ sent < MaxInFlight /\ \E i \in BodyImages : UploadNew(i)
  \/ \E r \in requests : ResponseArrives(r)
  \/ \E t \in timers : AutoSave(t)
  \/ Reset
  \/ ImgOnLoad
  \/ Jumps < MaxJumps /\ Jump

SpecNormalize == Init /\ [][NextNormalize]_vars

\* The overlay: a session that starts with nothing stored or with one stored
\* detection of the image with pixel boxes, and detects the overlay images;
\* the actions that set what the overlay is rendered from.
OverlayHistory ==
  << HistoryItem(NormalizeResult(Detect(DimensionlessImage + 1), 0),
                 ImageUrl(DimensionlessImage + 1),
                 [prefix |-> "microplastics_", stamp |-> 1, suffix |-> ""], 1) >>

InitOverlay == MountedFrom({AbsentSlot, SlotOf(OverlayHistory)}, {FALSE})

NextOverlay ==
  \/ sent < MaxRequests /\ \E i \in OverlayImages \ {DimensionlessImage} : Capture(i)
  \/ sent < MaxRequests /\ \E i \in OverlayImages : Upload(i)
  \/ sent < MaxRequests /\ \E i \in OverlayImages : UploadNew(i)
  \/ \E r \in requests : ResponseArrives(r)
  \/ \E r \in requests : RequestFails(r)
  \/ Reset
  \/ ImgOnLoad
  \/ ToggleHistory
  \/ \E k \in 1..Len(history) : LoadHistoryItem(k)

SpecOverlay == InitOverlay /\ [][NextOverlay]_vars

\* The history at its cap: the actions that change the history, and those
\* that lead to them.
NextCap ==
  \/ sent < MaxRequests /\ \E i \in Images : UploadNew(i)
  \/ \E r \in requests : ResponseArrives(r)
  \/ \E t \in timers : AutoSave(t)
  \/ Jumps < MaxJumps /\ Jump
  \/ SmallSteps < MaxSaves /\ SaveCurrentResult
  \/ ToggleHistory
  \/ \E k \in 1..Len(history) : LoadHistoryItem(k)
  \/ deletes < MaxDeletes /\ \E k \in 1..Len(history) : DeleteHistoryItem(k)
  \/ \E confirmed \in BOOLEAN : ClearAllHistory(confirmed)

SpecCap == InitCap /\ [][NextCap]_vars

(***************************************************************************)
(* Properties.                                                             *)
(***************************************************************************)
\* A step that appends: saveCurrentResult with something to save, or an
\* auto-save timer whose closure holds an image.
ExplicitAppend == SaveCurrentResult /\ result # JsNull /\ image # JsNull
AutoAppend(t) == AutoSave(t) /\ Truthy(t.image)

\* The history after the step is base with one item, created now, put in
\* front, cut to the cap by dropping from the tail.
PrependedTo(base) ==
  /\ Len(history') = Min(Len(base) + 1, HistoryCap)
  /\ history'[1].id = NumberToString(now)
  /\ \A k \in 2..Len(history') : history'[k] = base[k - 1]

C2_StaleResponseIgnored ==
  [][ (image = JsNull /\ result = JsNull /\ image' = JsNull) => result' = JsNull ]_vars

\* C3 (as claimed): at most one request is in flight in every reachable state.
C3_AtMostOneInFlight == Cardinality(requests) <= 1

\* C3 (amended): each capture/upload action puts exactly one request in
\* flight, next to those of earlier actions that have not completed, and no
\* other step adds a request.
C3_OneRequestPerAction ==
  [][ /\ sent' = sent + 1 => Cardinality(requests') = Cardinality(requests) + 1
      /\ sent' = sent => Cardinality(requests') <= Cardinality(requests) ]_vars

\* C3 witness: two capture/upload actions, both requests still in flight.
C3_Witness == sent = 2 /\ Cardinality(requests) = 2

\* C4: the persisted slot always represents the in-memory history: mounting
\* from it yields the history as it was last mutated.
C4_SlotMirrorsHistory == Hydrate(storage) = history

\* C5: every append, explicit or automatic, prepends to the history as it
\* stands when it runs.
C5_AppendsAreAtomic ==
  [][ (ExplicitAppend \/ \E t \in timers : AutoAppend(t)) => PrependedTo(history) ]_vars

\* C6: when the auto-save timer of a successful response has run, the history
\* starts with an item holding that response's normalized result.
C6_AutoSaveAppends ==
  [][ \A t \in timers : AutoSave(t) => (Len(history') > 0 /\ history'[1].result = t.result) ]_vars

\* The sequence s without its k-th element.
WithoutIndex(s, k) == [j \in 1..(Len(s) - 1) |-> IF j < k THEN s[j] ELSE s[j + 1]]

\* C7: deleteHistoryItem removes the one entry that was clicked and keeps all
\* others in their order, and removing an id that no entry has changes nothing.
C7_RemoveDeletesAtMostOne ==
  [][ /\ \A k \in 1..Len(history) :
           DeleteHistoryItem(k) => history' = WithoutIndex(history, k)
      /\ \A id \in {NumberToString(0), NumberToString(now + 1)} :
           (\A k \in 1..Len(history) : history[k].id # id)
             => FilterOutId(history, id) = history ]_vars

\* C8: the ids of the history's items are pairwise distinct.
C8_DistinctIds ==
  \A a, b \in 1..Len(history) : a # b => history[a].id # history[b].id

\* C9: a confirmed clear leaves the history empty and the slot removed, a
\* declined one changes neither, and an absent slot is created again only by
\* an append.
C9_ClearRemovesSlot ==
  [][ /\ ClearAllHistory(TRUE) => (history' = <<>> /\ ~storage'.present)
      /\ ClearAllHistory(FALSE) => (history' = history /\ storage' = storage)
      /\ (~storage.present /\ storage'.present)
           => (ExplicitAppend \/ \E t \in timers : AutoAppend(t)) ]_vars

\* C9 witness: the history was cleared (nothing was deleted, yet a pending
\* auto-save still holds the items it had) and the slot is gone.
C9_Witness ==
  /\ history = <<>>
  /\ ~storage.present
  /\ deletes = 0
  /\ \E t \in timers : Len(t.history) > 0

\* Pages 0..n-1 of the history, one after the other.
RECURSIVE PagesUpTo(_, _, _)
PagesUpTo(hist, n, size) ==
  IF n = 0 THEN <<>> ELSE PagesUpTo(hist, n - 1, size) \o PageSlice(hist, n - 1, size)

\* C10: page n is the contiguous run of up to itemsPerPage items that starts
\* at index n * itemsPerPage, in history order; a page beyond the end is
\* empty; the pages 0..totalPages-1 together are the history.
C10_PageIsContiguousSlice ==
  /\ \A n \in 0..(TotalPages(history) + 1) :
       LET page == PageSlice(history, n, itemsPerPage)
       IN /\ Len(page) = IF n * itemsPerPage >= Len(history) THEN 0
                         ELSE Min(itemsPerPage, Len(history) - n * itemsPerPage)
          /\ \A j \in 1..Len(page) : page[j] = history[n * itemsPerPage + j]
  /\ PagesUpTo(history, TotalPages(history), itemsPerPage) = history

\* C10 witness: the second page was shown with one item on it and that item
\* was deleted, so the page shown now lies beyond the end and is empty.
C10_Witness ==
  /\ showHistory
  /\ currentHistoryPage = 1
  /\ Len(history) = itemsPerPage
  /\ PageSlice(history, currentHistoryPage, itemsPerPage) = <<>>

\* The slot holds something other than the JSON text of an array of
\* HistoryItems.
CorruptSlot(slot) ==
  /\ slot.present
  /\ \/ "value" \notin DOMAIN slot
     \/ \E k \in 1..Len(slot.value) : ~IsHistoryItem(slot.value[k])

\* C11: as long as the slot holds a blob that is not the JSON text of an array
\* of history items (unparseable, or parseable as something else), the store
\* hydrated from it is empty and the component is still mounted.
C11_CorruptBlobIsEmptyStore ==
  CorruptSlot(storage) => (mounted /\ history = <<>>)

\* C12: when the save effect's write throws after a history mutation (an
\* append or a delete), the component stays mounted with the mutated history
\* and goes on handling actions.
C12_PersistFailureIsNotFatal ==
  [][ ( /\ \/ ExplicitAppend
           \/ \E t \in timers : AutoAppend(t)
           \/ \E k \in 1..Len(history) : DeleteHistoryItem(k)
        /\ SaveEffectThrows(history', storage) )
      => mounted' ]_vars

\* C13: when a request fails no new request is sent, loading is cleared, and
\* the result that was displayed when the request was started is displayed
\* again, unless the user has displayed something else since (a reset, a
\* loaded history item, the response of a later request).
C13_FailureKeepsPriorResult ==
  [][ \A r \in requests :
        RequestFails(r) =>
          /\ requests' = requests \ {r}
          /\ sent' = sent
          /\ ~loading'
          /\ (result = JsNull /\ image # JsNull) => result' = r.result ]_vars

\* The elements of a body's detections, none when it is not an array.
RawDetections(data) ==
  IF Get(data, "detections").t = "array" THEN Get(data, "detections").a ELSE <<>>

\* C14: every response that arrives is normalized into a displayed result
\* with one detection per element of the body's detections, in order, and a
\* null or undefined element becomes a detection with the field defaults
\* (confidence 0, bbox (0,0,0,0), label "Microplastic").
C14_MalformedElementDegrades ==
  [][ \A r \in requests :
        ResponseArrives(r) =>
          /\ result' # JsNull
          /\ Len(result'.detections) = Len(RawDetections(Detect(r.file)))
          /\ \A i \in 1..Len(RawDetections(Detect(r.file))) :
               Nullish(RawDetections(Detect(r.file))[i]) =>
                 /\ result'.detections[i].confidence = Num(0)
                 /\ result'.detections[i].bbox = ZeroBbox
                 /\ result'.detections[i].label = Str("Microplastic") ]_vars

\* A finite JavaScript number: not undefined, NaN, an infinity or a non-number.
Finite(v) == v.t = "number"

\* C15: in the displayed (normalized) result every detection's confidence is
\* a finite number and its bbox is four finite numbers.
C15_NumericFieldsFinite ==
  result # JsNull =>
    \A i \in 1..Len(result.detections) :
      /\ Finite(result.detections[i].confidence)
      /\ Len(result.detections[i].bbox.a) = 4
      /\ \A j \in 1..Len(result.detections[i].bbox.a) : Finite(result.detections[i].bbox.a[j])

\* C16: the count of a normalized result is Number(count) of the body, 0
\* when that is not a finite number, whatever the length of detections, and
\* it is a non-negative integer.
C16_CountIsCoerced ==
  [][ \A r \in requests :
        (ResponseArrives(r) /\ ~NormalizeThrows(Detect(r.file))) =>
          LET c == ToNumber(Get(Detect(r.file), "count"))
          IN /\ result'.count = IF Finite(c) THEN c ELSE Num(0)
             /\ result'.count.n >= 0
             /\ result'.count.n % 1000 = 0 ]_vars

\* A value shaped as the four named counts.
FourCounts(v) ==
  /\ v.t = "object"
  /\ DOMAIN v.o = {"nanoplastic", "small", "medium", "large"}
  /\ \A k \in DOMAIN v.o : Finite(v.o[k])

\* C17: the size_counts of a normalized result is the body's size_counts when
\* that is shaped as the four named counts, and the all-zero record otherwise.
C17_SizeCountsShaped ==
  [][ \A r \in requests :
        (ResponseArrives(r) /\ ~NormalizeThrows(Detect(r.file))) =>
          LET sc == Get(Detect(r.file), "size_counts")
          IN result'.size_counts = IF FourCounts(sc) THEN sc ELSE ZeroSizeCounts ]_vars

\* The treatments of the four size buckets and of the three confidence bands.
BucketTreatments ==
  { sizeCategoryColors[c] : c \in DOMAIN sizeCategoryColors }
  \cup { "border-green-500 bg-green-500/10 text-green-400",
         "border-yellow-500 bg-yellow-500/10 text-yellow-400",
         "border-red-500 bg-red-500/10 text-red-400" }

\* C18: every detection of the displayed (normalized) result has no
\* size_category or one of nanoplastic, small, medium, large, and
\* getSizeCategoryColor gives it the treatment of one of the four size
\* buckets or of one of the three confidence bands.
C18_SizeCategoryClosed ==
  result # JsNull =>
    \A i \in 1..Len(result.detections) :
      /\ \/ result.detections[i].size_category = Undefined
         \/ result.detections[i].size_category \in { Str(c) : c \in DOMAIN sizeCategoryColors }
      /\ getSizeCategoryColor(result.detections[i]) \in BucketTreatments

\* A normalized result as the object it is, to be read as a response body.
AsBody(r) ==
  Obj([ count |-> r.count,
        detections |-> Arr([i \in 1..Len(r.detections) |-> Obj(r.detections[i])]),
        image_size |-> r.image_size,
        size_counts |-> r.size_counts,
        calibration_info |-> r.calibration_info,
        timestamp |-> Str("an ISO instant") ])

\* C19: normalizing the displayed (normalized) result again, one millisecond
\* later, yields the same count, detections, image_size, size_counts and
\* calibration_info, and the timestamp of the second normalization.
C19_NormalizeIdempotent ==
  result # JsNull =>
    LET again == NormalizeResult(AsBody(result), now + 1)
    IN /\ ~NormalizeThrows(AsBody(result))
       /\ again.count = result.count
       /\ again.detections = result.detections
       /\ again.image_size = result.image_size
       /\ again.size_counts = result.size_counts
       /\ again.calibration_info = result.calibration_info
       /\ again.timestamp = ToISOString(now + 1)

\* C20: parseBbox of every detection's bbox of the displayed result is four
\* finite numbers: zeros when the bbox is not an array of at least four
\* elements, else Number(...) of each of the first four, 0 where that is not
\* a finite number.
C20_ParseBboxFinite ==
  result # JsNull =>
    \A i \in 1..Len(result.detections) :
      LET raw == result.detections[i].bbox
          box == parseBbox(raw)
      IN /\ Len(box) = 4
         /\ \A j \in 1..4 : Finite(box[j])
         /\ \A j \in 1..4 :
              box[j] = IF raw.t = "array" /\ Len(raw.a) >= 4 /\ Finite(ToNumber(raw.a[j]))
                         THEN ToNumber(raw.a[j]) ELSE Num(0)

\* What renderBoundingBoxes returns in the current render.
Overlay == renderBoundingBoxes(result, imageDimensions, image)

\* The projection of a box by the rule: a hundred times each component when
\* all four are at most 1, else a hundred times each component over the
\* width (x, w) or the height (y, h).
ProjectedByRule(box, dims) ==
  IF \A j \in 1..4 : AtMost(box[j], 1000)
    THEN [ leftPercent |-> Times(Num(100000), box[1]),
           topPercent |-> Times(Num(100000), box[2]),
           widthPercent |-> Times(Num(100000), box[3]),
           heightPercent |-> Times(Num(100000), box[4]) ]
    ELSE [ leftPercent |-> Over(Times(Num(100000), box[1]), Num(1000 * dims.width)),
           topPercent |-> Over(Times(Num(100000), box[2]), Num(1000 * dims.height)),
           widthPercent |-> Over(Times(Num(100000), box[3]), Num(1000 * dims.width)),
           heightPercent |-> Over(Times(Num(100000), box[4]), Num(1000 * dims.height)) ]

\* C21: when the overlay is rendered against image dimensions W x H that are
\* both non-zero, every box whose four components are all at most 1 is at
\* left 100x%, top 100y%, width 100w%, height 100h%, whatever W and H, and
\* every other box at 100x/W, 100y/H, 100w/W, 100h/H; calculateBoundingBox
\* of the variant gives the same percentages.
C21_ProjectionByScale ==
  (Overlay.rendered /\ imageDimensions.width # 0 /\ imageDimensions.height # 0) =>
    \A i \in 1..Len(result.detections) :
      LET expected == ProjectedByRule(parseBbox(result.detections[i].bbox), imageDimensions)
      IN /\ Overlay.boxes[i].style = expected
         /\ calculateBoundingBox(result.detections[i].bbox,
                                 imageDimensions.width, imageDimensions.height) = expected

\* The overlay of the image with pixel boxes against its own dimensions: the
\* box at x = 30 of 300 pixels is at left 10%, the box at y = 1 of 150
\* pixels at top 2/3 %.
C21_Witness ==
  /\ Overlay.rendered
  /\ imageDimensions = NaturalSize(DimensionlessImage + 1)
  /\ Len(result.detections) = 2
  /\ Overlay.boxes[2].style.leftPercent = Num(10000)
  /\ Overlay.boxes[1].style.topPercent = [t |-> "number", n |-> 2000, d |-> 3]

\* C22: the overlay is rendered only with a result, an image and image
\* dimensions, and never against a width or a height of 0.
C22_NoOverlayWithoutSize ==
  Overlay.rendered =>
    /\ result # JsNull
    /\ image # JsNull
    /\ imageDimensions # JsNull
    /\ imageDimensions.width # 0
    /\ imageDimensions.height # 0

\* The confidence band of a confidence c: high above 0.7, low at or below
\* 0.4, medium between; and the band's treatment.
BandOf(c) ==
  IF AtMost(c, 400) THEN "low" ELSE IF AtMost(c, 700) THEN "medium" ELSE "high"
BandDot(band) ==
  CASE band = "high" -> "bg-green-500" [] band = "medium" -> "bg-yellow-500"
    [] OTHER -> "bg-red-500"
BandText(band) ==
  CASE band = "high" -> "text-green-400" [] band = "medium" -> "text-yellow-400"
    [] OTHER -> "text-red-400"
BandTreatment(band) ==
  CASE band = "high" -> "border-green-500 bg-green-500/10 text-green-400"
    [] band = "medium" -> "border-yellow-500 bg-yellow-500/10 text-yellow-400"
    [] OTHER -> "border-red-500 bg-red-500/10 text-red-400"

\* Confidences and size categories to vary a detection over.
SomeConfidences == {Num(0), Num(400), Num(700), Num(750), Num(1000)}
SomeCategories ==
  {Undefined, Str("huge")} \cup { Str(c) : c \in DOMAIN sizeCategoryColors }

\* A detection under the category policy: it has a size category and its
\* label is "microplastic" in any case.
IsSizedParticle(d) ==
  d.size_category # Undefined /\ ToLowerCase(d.label.s) = "microplastic"

\* C23: for every detection of the displayed result, if it has a size
\* category and the label "microplastic" (in any case), its treatment is the
\* same whatever its confidence, and is its category's when that is one of
\* the four; otherwise its treatment is the band of its confidence, and,
\* when the label is not "microplastic", the same whatever its size category.
C23_PolicyIsExclusive ==
  result # JsNull =>
    \A i \in 1..Len(result.detections) :
      LET d == result.detections[i]
      IN IF IsSizedParticle(d)
           THEN /\ \A c \in SomeConfidences :
                     getSizeCategoryColor([d EXCEPT !.confidence = c]) = getSizeCategoryColor(d)
                /\ d.size_category.s \in DOMAIN sizeCategoryColors =>
                     getSizeCategoryColor(d) = sizeCategoryColors[d.size_category.s]
           ELSE /\ getSizeCategoryColor(d) = BandTreatment(BandOf(OrElse(ToNumber(d.confidence), Num(0))))
                /\ ToLowerCase(d.label.s) # "microplastic" =>
                     \A s \in SomeCategories :
                       getSizeCategoryColor([d EXCEPT !.size_category = s])
                         = getSizeCategoryColor(d)

\* The displayed result has a "Fiber" with size category large and
\* confidence 0.75, in the high band's treatment, and a "MICROPLASTIC" with
\* size category small and confidence 0.9, in the small bucket's treatment.
C23_Witness ==
  /\ result # JsNull
  /\ Len(result.detections) = 2
  /\ result.detections[1].label = Str("Fiber")
  /\ result.detections[1].size_category = Str("large")
  /\ getSizeCategoryColor(result.detections[1]) = BandTreatment("high")
  /\ result.detections[2].label = Str("MICROPLASTIC")
  /\ result.detections[2].confidence = Num(900)
  /\ getSizeCategoryColor(result.detections[2]) = sizeCategoryColors.small

\* C24: every detection of the displayed result is in exactly the band of
\* its confidence (high above 0.7, medium above 0.4 up to 0.7, low up to
\* 0.4) in the variant's overlay and details list, and, unless it is under
\* the category policy, in the overlay and the details list of the
\* component with size classification.
C24_ConfidenceBands ==
  result # JsNull =>
    \A i \in 1..Len(result.detections) :
      LET d == result.detections[i]
          band == BandOf(OrElse(ToNumber(d.confidence), Num(0)))
      IN /\ WithoutSizeBoxColors(d) = SplitClasses(BandTreatment(band))
         /\ WithoutSizeDetailsColors(d) = [dot |-> BandDot(band), text |-> BandText(band)]
         /\ ~IsSizedParticle(d) =>
              /\ getSizeCategoryColor(d) = BandTreatment(band)
              /\ DetailsDot(d) = BandDot(band)

\* The displayed result has a detection of confidence exactly 0.7, in the
\* medium band, and one of confidence exactly 0.4, in the low band.
C24_Witness ==
  /\ result # JsNull
  /\ Len(result.detections) = 3
  /\ result.detections[1].confidence = Num(700)
  /\ WithoutSizeBoxColors(result.detections[1]).borderColor = "border-yellow-500"
  /\ result.detections[2].confidence = Num(400)
  /\ WithoutSizeDetailsColors(result.detections[2]).dot = "bg-red-500"

\* C25: in every rendered overlay, a box's label is placed inside the box at
\* its top (top-0, translateY(0)) when the box's top percentage is below 10,
\* and above it (top-full, translateY(-100%)) in every other case.
C25_LabelPlacement ==
  Overlay.rendered =>
    \A i \in 1..Len(result.detections) :
      LET top == Overlay.boxes[i].style.topPercent
          label == Overlay.boxes[i].label
          inside == label.labelPositionClass = "top-0" /\ label.labelTransform = "translateY(0)"
          above == /\ label.labelPositionClass = "top-full"
                   /\ label.labelTransform = "translateY(-100%)"
      IN /\ inside <=> LessThan(top, 10000)
         /\ inside <=> ~above

\* The rendered overlay has a box at top 5% with its label inside and a box
\* at top exactly 10% with its label above.
C25_Witness ==
  /\ Overlay.rendered
  /\ Len(result.detections) = 3
  /\ Overlay.boxes[1].style.topPercent = Num(5000)
  /\ Overlay.boxes[1].label.labelPositionClass = "top-0"
  /\ Overlay.boxes[2].style.topPercent = Num(10000)
  /\ Overlay.boxes[2].label.labelPositionClass = "top-full"

\* A history item whose result is the detection of its own image.
PairsResultWithImage(item) ==
  LET produced == NormalizeResult(Detect(item.imageData.i), 0)
  IN /\ item.result.count = produced.count
     /\ item.result.detections = produced.detections

\* C26: the result of every history item is the detection of the item's own
\* image.
C26_ItemPairsResultWithImage ==
  \A k \in 1..Len(history) : PairsResultWithImage(history[k])

\* C27: whenever an image and a result are displayed together, the result
\* is the detection of that image.
C27_ResultBelongsToImage ==
  (image # JsNull /\ result # JsNull) =>
    LET produced == NormalizeResult(Detect(image.i), 0)
    IN /\ result.count = produced.count
       /\ result.detections = produced.detections

\* C28: loading is true exactly while a request is in flight.
C28_LoadingIffInFlight == loading <=> (requests # {})

\* C29: the current history page is not negative and, when the history is
\* not empty, is one of its pages.
C29_PageIsValid ==
  /\ currentHistoryPage >= 0
  /\ Len(history) > 0 => currentHistoryPage < TotalPages(history)

\* C30: whenever the overlay is rendered, the image dimensions it uses are
\* the natural size of the displayed image.
C30_OverlayUsesOwnDimensions ==
  Overlay.rendered => imageDimensions = NaturalSize(image.i)

=============================================================================
